---- MODULE Spec2Model ----
(***************************************************************************)
(* Model of the matrix-multiplication FLOPS analyzer                       *)
(* (React component MatrixMultiplicationAnalyzer, src/unnamed/part_000).   *)
(*                                                                         *)
(* Four specifications share this module:                                  *)
(*   Spec      the component: its state hooks, the onChange / onClick      *)
(*             handlers, the async sweep runAnalysis and React's commits;  *)
(*   SpecMul   multiplyMatricesWithFLOPS on bounded inputs;                *)
(*   SpecTrial measureFLOPS, one trial per step;                           *)
(*   SpecFit   fitCubicCurve on bounded inputs.                            *)
(*                                                                         *)
(* JavaScript numbers are modelled as exact decimal-scaled rationals       *)
(* num/den * 10^e together with the IEEE special values NaN and +-Infinity *)
(* (division by zero, 0 * Infinity, Math.min/Math.max of NaN).  Rounding   *)
(* of finite doubles is not modelled.                                      *)
(***************************************************************************)
EXTENDS Integers, Sequences, FiniteSets, TLC

VARIABLES
    \* --- React state hooks of the component (lines 40-47)
    startN, endN, step, measurements, isRunning, progress, results, currentTest,
    \* --- the last committed render: the values the handlers' closures and
    \*     the JSX (disabled=..., results && ...) were built from
    rendered,
    \* --- invocations of runAnalysis suspended at the await of line 219
    sweeps,
    \* --- history: the points measured since the latest run started, how the
    \*     latest run ended, the inputs it captured, and whether a run request
    \*     was ignored since it started
    measured, lastOutcome, lastRun, rejected,
    \* --- multiplyMatricesWithFLOPS applied to inputs (SpecMul)
    mulN, matA, matB, mulOut,
    \* --- measureFLOPS, trial by trial (SpecTrial)
    trialN, numMeasurements, times, flopsResults, teraflopsSecondsResults,
    totalFLOPS, trialOut,
    \* --- fitCubicCurve applied to inputs (SpecFit)
    fitIn, fitOut

hookVars   == <<startN, endN, step, measurements, isRunning, progress, results, currentTest>>
sweepVars  == <<hookVars, rendered, sweeps, measured, lastOutcome, lastRun, rejected>>
mulVars    == <<mulN, matA, matB, mulOut>>
trialVars  == <<trialN, numMeasurements, times, flopsResults, teraflopsSecondsResults,
                totalFLOPS, trialOut>>
fitVars    == <<fitIn, fitOut>>
vars       == <<sweepVars, mulVars, trialVars, fitVars>>

----------------------------------------------------------------------------
(* JavaScript numbers                                                      *)

Abs(x) == IF x < 0 THEN -x ELSE x

RECURSIVE Gcd(_, _)
Gcd(a, b) == IF b = 0 THEN a ELSE Gcd(b, a % b)

RECURSIVE Pow10(_)
Pow10(k) == IF k = 0 THEN 1 ELSE 10 * Pow10(k - 1)

NaN    == [kind |-> "NaN", num |-> 0, den |-> 1, e |-> 0]
PosInf == [kind |-> "Inf", num |-> 1, den |-> 1, e |-> 0]
NegInf == [kind |-> "Inf", num |-> -1, den |-> 1, e |-> 0]
Zero   == [kind |-> "fin", num |-> 0, den |-> 1, e |-> 0]

\* Canonical form of the finite value num/den * 10^e: den is coprime to 10
\* and num is not a multiple of 10, so equal values are equal records.
RECURSIVE StripNum(_, _, _)
StripNum(num, den, e) ==
    IF num % 10 = 0 THEN StripNum(num \div 10, den, e + 1)
    ELSE [kind |-> "fin", num |-> num, den |-> den, e |-> e]

RECURSIVE StripDen(_, _, _)
StripDen(num, den, e) ==
    IF den % 2 = 0 THEN StripDen(num * 5, den \div 2, e - 1)
    ELSE IF den % 5 = 0 THEN StripDen(num * 2, den \div 5, e - 1)
    ELSE StripNum(num, den, e)

Fin(num, den, e) ==
    IF num = 0 THEN Zero
    ELSE LET g == Gcd(Abs(num), den) IN StripDen(num \div g, den \div g, e)

FromInt(i) == Fin(i, 1, 0)

IsFinite(x) == x.kind = "fin"
IsNaN(x)    == x.kind = "NaN"
Sign(x)     == IF x.num > 0 THEN 1 ELSE IF x.num < 0 THEN -1 ELSE 0

\* x + y
NumAdd(x, y) ==
    IF IsNaN(x) \/ IsNaN(y) THEN NaN
    ELSE IF ~IsFinite(x) /\ ~IsFinite(y) THEN (IF x.num = y.num THEN x ELSE NaN)
    ELSE IF ~IsFinite(x) THEN x
    ELSE IF ~IsFinite(y) THEN y
    ELSE IF x.num = 0 THEN y
    ELSE IF y.num = 0 THEN x
    ELSE LET m == IF x.e < y.e THEN x.e ELSE y.e
             g == Gcd(x.den, y.den)
         IN  Fin(x.num * Pow10(x.e - m) * (y.den \div g)
                   + y.num * Pow10(y.e - m) * (x.den \div g),
                 (x.den \div g) * y.den, m)

NumNeg(x) == IF IsNaN(x) THEN NaN ELSE [x EXCEPT !.num = -x.num]

NumSub(x, y) == NumAdd(x, NumNeg(y))

\* x * y  (0 * Infinity is NaN)
NumMul(x, y) ==
    IF IsNaN(x) \/ IsNaN(y) THEN NaN
    ELSE IF ~IsFinite(x) \/ ~IsFinite(y)
         THEN (IF Sign(x) * Sign(y) = 0 THEN NaN
               ELSE IF Sign(x) * Sign(y) > 0 THEN PosInf ELSE NegInf)
    ELSE IF x.num = 0 \/ y.num = 0 THEN Zero
    ELSE LET g1 == Gcd(Abs(x.num), y.den)
             g2 == Gcd(Abs(y.num), x.den)
         IN  Fin((x.num \div g1) * (y.num \div g2),
                 (x.den \div g2) * (y.den \div g1), x.e + y.e)

\* x / y  (0/0 and Infinity/Infinity are NaN, x/0 is +-Infinity; the
\* model has no negative zero: every divisor of the source is >= 0)
NumDiv(x, y) ==
    IF IsNaN(x) \/ IsNaN(y) THEN NaN
    ELSE IF ~IsFinite(y) THEN (IF IsFinite(x) THEN Zero ELSE NaN)
    ELSE IF ~IsFinite(x)
         THEN (IF Sign(y) < 0 THEN NumNeg(x) ELSE x)
    ELSE IF y.num = 0
         THEN (IF x.num = 0 THEN NaN ELSE IF x.num > 0 THEN PosInf ELSE NegInf)
    ELSE IF x.num = 0 THEN Zero
    ELSE LET g1 == Gcd(Abs(x.num), Abs(y.num))
             g2 == Gcd(x.den, y.den)
         IN  Fin((x.num \div g1) * (y.den \div g2) * Sign(y),
                 (x.den \div g2) * (Abs(y.num) \div g1), x.e - y.e)

\* x < y on non-NaN values
NumLess(x, y) ==
    IF ~IsFinite(x) \/ ~IsFinite(y)
    THEN (IF IsFinite(x) THEN y.num > 0
          ELSE IF IsFinite(y) THEN x.num < 0
          ELSE x.num < y.num)
    ELSE Sign(NumSub(x, y)) < 0

\* Math.min(x, y): NaN if either argument is NaN
MathMin(x, y) ==
    IF IsNaN(x) \/ IsNaN(y) THEN NaN
    ELSE IF NumLess(y, x) THEN y ELSE x

\* 10^k as a number (1e12, 1e9, 1000, 0.000001)
E10(k) == [kind |-> "fin", num |-> 1, den |-> 1, e |-> k]

----------------------------------------------------------------------------
(* Bounds of the component model                                           *)

\* The values typed into the number inputs are 0, 50, ..., 50 * MaxTyped.
MaxTyped == 3

TypedValues == {50 * k : k \in 0..MaxTyped}

Max(a, b) == IF a < b THEN b ELSE a
Min(a, b) == IF a < b THEN a ELSE b

----------------------------------------------------------------------------
(* The component: state hooks, handlers and the sweep                      *)

\* useState initial values
InitialStartN       == 100
InitialEndN         == 800
InitialStep         == 100
InitialMeasurements == 3

\* clamps of the onChange handlers
MinStartN       == 50
MinStep         == 25
MinMeasurements == 1
MaxMeasurements == 10

\* results: AnalysisResult | null
null == [kind |-> "null"]

\* currentTest: "" or the label of the size under measurement
\* `Calculando TERAFLOPS-segundos para matrices ${n}x${n} (${measurements} mediciones)`
NoTest == <<>>
TestLabel(n, m) == <<n, n, m>>

\* The values of the state hooks, as one record.
Hooks ==
    [startN |-> startN, endN |-> endN, step |-> step, measurements |-> measurements,
     isRunning |-> isRunning, progress |-> progress, results |-> results,
     currentTest |-> currentTest]

\* The sweep keeps of each DataPoint the size n: the other fields are
\* functions of n and of the clock readings, modelled by measureFLOPS below.
DataPoint(n) == [n |-> n]

\* The object passed to setResults (lines 242-251), of which the model
\* keeps the points; the fit and the aggregates are built by the same call.
AnalysisResult(dataPoints) == [kind |-> "result", dataPoints |-> dataPoints]

\* if (isRunning) return
AlreadyRunningNever(closure) == FALSE
AlreadyRunning(closure) == closure.isRunning

\* const dataPoints: DataPoint[] = []
InitialDataPointsMerged(closure) ==
    IF closure.results = null THEN <<>> ELSE closure.results.dataPoints
InitialDataPoints(closure) == <<>>

\* const totalTests = Math.floor((endN - startN) / step) + 1
TotalTests(closure) == ((closure.endN - closure.startN) \div closure.step) + 1

\* The locals of one invocation of runAnalysis, entering the loop.
NewRun(closure) ==
    [startN |-> closure.startN, endN |-> closure.endN, step |-> closure.step,
     measurements |-> closure.measurements,
     totalTests |-> TotalTests(closure),
     n |-> closure.startN, dataPoints |-> InitialDataPoints(closure)]

\* const currentProgress = ((n - startN) / (endN - startN)) * 100
CurrentProgress(run) ==
    NumMul(NumDiv(FromInt(run.n - run.startN), FromInt(run.endN - run.startN)),
           FromInt(100))

\* setProgress(Math.min(currentProgress, 100))
ReportedProgress(run) == MathMin(CurrentProgress(run), FromInt(100))

\* finally { setIsRunning(false); setCurrentTest(""); setProgress(0) }
FinallyKeepsProgress(h) == [h EXCEPT !.isRunning = FALSE, !.currentTest = NoTest]
Finally(h) == [h EXCEPT !.isRunning = FALSE, !.currentTest = NoTest, !.progress = Zero]

\* catch (error) { console.error(...) }: nothing is published
CatchPublishesPartial(h, run) == [h EXCEPT !.results = AnalysisResult(run.dataPoints)]
Catch(h, run) == h

\* for (let n = startN; n <= endN; n += step)
LoopTestExclusive(run) == run.n < run.endN
LoopTest(run) == run.n <= run.endN

\* One iteration that does not throw: setCurrentTest(...), dataPoints.push(...),
\* setProgress(...).  Nothing is published.
LoopBodyPublishing(h, run) ==
    [h EXCEPT !.currentTest = TestLabel(run.n, run.measurements),
              !.progress = ReportedProgress(run),
              !.results = AnalysisResult(Append(run.dataPoints, DataPoint(run.n)))]
LoopBody(h, run) ==
    [h EXCEPT !.currentTest = TestLabel(run.n, run.measurements),
              !.progress = ReportedProgress(run)]

\* The body of runAnalysis from the loop test `n <= endN` to the next
\* await (line 219) or to the end of the function.  `throws` says whether
\* measureFLOPS throws in this iteration; h holds the values of the
\* isRunning, progress, results and currentTest hooks.
\* Result: the hooks' new values, the suspended invocation (if any), how
\* the invocation stands, and the points measured.
RunFromLoopTest(run, throws, h) ==
    IF LoopTest(run)
    THEN IF throws
         THEN [hooks    |-> Finally(Catch([h EXCEPT !.currentTest =
                                              TestLabel(run.n, run.measurements)], run)),
               sweeps   |-> <<>>,
               outcome  |-> "failed",
               points   |-> <<>>]
         ELSE [hooks    |-> LoopBody(h, run),
               sweeps   |-> <<[run EXCEPT !.dataPoints = Append(@, DataPoint(run.n))]>>,
               outcome  |-> "running",
               points   |-> <<DataPoint(run.n)>>]
    ELSE [hooks    |-> Finally([h EXCEPT !.results = AnalysisResult(run.dataPoints)]),
          sweeps   |-> <<>>,
          outcome  |-> "completed",
          points   |-> <<>>]

SweepInit ==
    /\ startN = InitialStartN
    /\ endN = InitialEndN
    /\ step = InitialStep
    /\ measurements = InitialMeasurements
    /\ isRunning = FALSE
    /\ progress = Zero
    /\ results = null
    /\ currentTest = NoTest
    /\ rendered = Hooks
    /\ sweeps = <<>>
    /\ measured = <<>>
    /\ lastOutcome = "none"
    /\ lastRun = [startN |-> 0, endN |-> 0, step |-> 0, hadResults |-> FALSE]
    /\ rejected = FALSE

SetHooks(h) ==
    /\ isRunning' = h.isRunning
    /\ progress' = h.progress
    /\ results' = h.results
    /\ currentTest' = h.currentTest

\* The variables of the other specifications stay as they are.
OthersIdle == UNCHANGED <<mulVars, trialVars, fitVars>>

\* React commits the updates of a discrete event (click, change) before it
\* dispatches the next event.
Commit == rendered' = Hooks'

\* runAnalysis, invoked through the callback of the committed render, up
\* to its first await or its end.
RunAnalysis ==
    /\ OthersIdle
    /\ IF AlreadyRunning(rendered)
       THEN /\ rejected' = TRUE
            /\ UNCHANGED <<hookVars, rendered, sweeps, measured, lastOutcome, lastRun>>
       ELSE \E throws \in BOOLEAN :
           LET out == RunFromLoopTest(NewRun(rendered), throws,
                         [isRunning |-> TRUE, progress |-> Zero,
                          results |-> null, currentTest |-> NoTest])
           IN  /\ SetHooks(out.hooks)
               /\ UNCHANGED <<startN, endN, step, measurements>>
               /\ Commit
               /\ sweeps' = sweeps \o out.sweeps
               /\ measured' = out.points
               /\ lastOutcome' = out.outcome
               /\ lastRun' = [startN |-> rendered.startN, endN |-> rendered.endN,
                              step |-> rendered.step, hadResults |-> results # null]
               /\ rejected' = FALSE

\* The timer of line 219 fires: the invocation resumes with `n += step`.
Resume(i, throws) ==
    LET run == [sweeps[i] EXCEPT !.n = @ + sweeps[i].step]
        out == RunFromLoopTest(run, throws,
                  [isRunning |-> isRunning, progress |-> progress,
                   results |-> results, currentTest |-> currentTest])
    IN  /\ SetHooks(out.hooks)
        /\ sweeps' = SubSeq(sweeps, 1, i - 1) \o out.sweeps
                       \o SubSeq(sweeps, i + 1, Len(sweeps))
        /\ measured' = measured \o out.points
        /\ lastOutcome' = out.outcome
        /\ UNCHANGED <<startN, endN, step, measurements, rendered, lastRun, rejected>>
        /\ OthersIdle

\* measureFLOPS throws in the resumed iteration, or it does not.  The
\* throwing disjunct comes first: TLC settles ENABLED ResumeSweep with the
\* first disjunct that gives a successor, and that one needs no arithmetic.
ResumeSweep == \E i \in 1..Len(sweeps) : Resume(i, TRUE) \/ Resume(i, FALSE)

\* React renders the updates made outside an event handler.
Render ==
    /\ rendered # Hooks
    /\ rendered' = Hooks
    /\ UNCHANGED <<hookVars, sweeps, measured, lastOutcome, lastRun, rejected>>
    /\ OthersIdle

\* <Input ... disabled={isRunning} />
InputDisabled == rendered.isRunning

\* onChange={(e) => setStartN(Math.max(50, Number(e.target.value)))}
ChangeStartN(v) ==
    /\ ~InputDisabled
    /\ startN' = Max(MinStartN, v)
    /\ UNCHANGED <<endN, step, measurements, isRunning, progress, results, currentTest>>
    /\ Commit
    /\ UNCHANGED <<sweeps, measured, lastOutcome, lastRun, rejected>>
    /\ OthersIdle

\* onChange={(e) => setEndN(Math.max(startN, Number(e.target.value)))}
ChangeEndN(v) ==
    /\ ~InputDisabled
    /\ endN' = Max(rendered.startN, v)
    /\ UNCHANGED <<startN, step, measurements, isRunning, progress, results, currentTest>>
    /\ Commit
    /\ UNCHANGED <<sweeps, measured, lastOutcome, lastRun, rejected>>
    /\ OthersIdle

\* onChange={(e) => setStep(Math.max(25, Number(e.target.value)))}
ChangeStep(v) ==
    /\ ~InputDisabled
    /\ step' = Max(MinStep, v)
    /\ UNCHANGED <<startN, endN, measurements, isRunning, progress, results, currentTest>>
    /\ Commit
    /\ UNCHANGED <<sweeps, measured, lastOutcome, lastRun, rejected>>
    /\ OthersIdle

\* onChange={(e) => setMeasurements(Math.max(1, Math.min(10, Number(e.target.value))))}
ChangeMeasurements(v) ==
    /\ ~InputDisabled
    /\ measurements' = Max(MinMeasurements, Min(MaxMeasurements, v))
    /\ UNCHANGED <<startN, endN, step, isRunning, progress, results, currentTest>>
    /\ Commit
    /\ UNCHANGED <<sweeps, measured, lastOutcome, lastRun, rejected>>
    /\ OthersIdle

\* clearResults, behind the button rendered inside {results && ...}
ClearResults ==
    /\ rendered.results # null
    /\ results' = null
    /\ progress' = Zero
    /\ currentTest' = NoTest
    /\ UNCHANGED <<startN, endN, step, measurements, isRunning>>
    /\ Commit
    /\ UNCHANGED <<sweeps, measured, lastOutcome, lastRun, rejected>>
    /\ OthersIdle

MulIdle ==
    /\ mulN = 0 /\ matA = <<>> /\ matB = <<>> /\ mulOut = <<>>
TrialIdle ==
    /\ trialN = 0 /\ numMeasurements = 0 /\ times = <<>> /\ flopsResults = <<>>
    /\ teraflopsSecondsResults = <<>> /\ totalFLOPS = 0 /\ trialOut = <<>>
FitIdle ==
    /\ fitIn = <<>> /\ fitOut = <<>>

Init == SweepInit /\ MulIdle /\ TrialIdle /\ FitIdle

Next ==
    \/ RunAnalysis
    \/ ResumeSweep
    \/ Render
    \/ \E v \in TypedValues : ChangeStartN(v)
    \/ \E v \in TypedValues : ChangeEndN(v)
    \/ \E v \in TypedValues : ChangeStep(v)
    \/ \E v \in TypedValues : ChangeMeasurements(v)
    \/ ClearResults

Spec == Init /\ [][Next]_vars

\* The event loop runs every timer that is due.
FairSpec == Spec /\ WF_vars(ResumeSweep)

----------------------------------------------------------------------------
(* multiplyMatricesWithFLOPS                                               *)

\* Sizes 0..MaxMulN are multiplied.
MaxMulN == 2

\* Sample of the values Math.random() * 10 gives a matrix entry.
MatrixEntries == {0, 1}

\* The n x n matrices over the sampled entries (rows and columns from 1).
Matrices(n) == [1..n -> [1..n -> MatrixEntries]]

\* flops += 2
FlopsPerStepSkippingZeros(x, y) == IF x * y = 0 THEN 0 ELSE 2
FlopsPerStep(x, y) == 2

\* The first loop nest: result[i][j] = 0
ZeroMatrix(n) == [i \in 1..n |-> [j \in 1..n |-> 0]]

\* The second loop nest, entered at (i, j, k) with the locals st.
RECURSIVE MultiplyLoop(_, _, _, _, _, _, _)
MultiplyLoop(a, b, n, i, j, k, st) ==
    IF i > n THEN st
    ELSE IF j > n THEN MultiplyLoop(a, b, n, i + 1, 1, 1, st)
    ELSE IF k > n THEN MultiplyLoop(a, b, n, i, j + 1, 1, st)
    ELSE MultiplyLoop(a, b, n, i, j, k + 1,
            [result |-> [st.result EXCEPT ![i][j] = @ + a[i][k] * b[k][j]],
             flops  |-> st.flops + FlopsPerStep(a[i][k], b[k][j])])

multiplyMatricesWithFLOPS(a, b, n) ==
    MultiplyLoop(a, b, n, 1, 1, 1, [result |-> ZeroMatrix(n), flops |-> 0])

MulInit ==
    /\ mulN \in 0..MaxMulN
    /\ matA \in Matrices(mulN)
    /\ matB \in Matrices(mulN)
    /\ mulOut = <<>>

\* One call of multiplyMatricesWithFLOPS(matA, matB, mulN).
Multiply ==
    /\ mulOut = <<>>
    /\ mulOut' = <<multiplyMatricesWithFLOPS(matA, matB, mulN)>>
    /\ UNCHANGED <<mulN, matA, matB, sweepVars, trialVars, fitVars>>

InitMul == SweepInit /\ MulInit /\ TrialIdle /\ FitIdle
SpecMul == InitMul /\ [][Multiply]_vars

\* C5: the flops count returned for n x n inputs is 2 * n^3 whatever the
\* matrices hold; for n = 0 it is 0 and the result matrix is empty.
C5_FlopsTwoNCubed ==
    mulOut # <<>> =>
        /\ mulOut[1].flops = 2 * mulN * mulN * mulN
        /\ mulN = 0 => (mulOut[1].flops = 0 /\ mulOut[1].result = <<>>)
        /\ DOMAIN mulOut[1].result = 1..mulN

\* a product of a matrix with zero entries and one with non-zero entries
C5_Witness ==
    /\ mulOut # <<>> /\ mulN >= 2
    /\ \A i \in 1..mulN : \A j \in 1..mulN : matA[i][j] = 0
    /\ matB[1][1] # 0

----------------------------------------------------------------------------
(* measureFLOPS                                                            *)

\* Sizes 1..MaxTrialN are measured, with 1..MaxTrials trials, and the
\* clock gives elapsed times of 0..MaxElapsed milliseconds.
MaxTrialN  == 2
MaxTrials  == 3
MaxElapsed == 2

\* Sample of the matrices generateRandomMatrix(n) returns.
generateRandomMatrix(n) == {[i \in 1..n |-> [j \in 1..n |-> v]] : v \in MatrixEntries}

RECURSIVE SumFrom(_, _, _)
\* seq.reduce((sum, x) => sum + x, 0), from index k with accumulator sum
SumFrom(seq, k, sum) ==
    IF k > Len(seq) THEN sum ELSE SumFrom(seq, k + 1, NumAdd(sum, seq[k]))

Reduce(seq) == SumFrom(seq, 1, Zero)

\* Math.pow(x, 2)
Square(x) == NumMul(x, x)

RECURSIVE IntSqrtFrom(_, _)
IntSqrtFrom(k, r) == IF r * r >= k THEN r ELSE IntSqrtFrom(k, r + 1)
\* the least r with r * r >= k
IntSqrt(k) == IntSqrtFrom(k, 0)

\* Math.sqrt(x): exact where the root is rational; otherwise the value is
\* kept as the root of its radicand.
MathSqrt(x) ==
    IF IsNaN(x) THEN NaN
    ELSE IF ~IsFinite(x) THEN (IF x.num > 0 THEN PosInf ELSE NaN)
    ELSE IF x.num < 0 THEN NaN
    ELSE IF x.num = 0 THEN Zero
    ELSE LET rn == IntSqrt(x.num)
             rd == IntSqrt(x.den)
         IN  IF rn * rn = x.num /\ rd * rd = x.den /\ x.e % 2 = 0
             THEN Fin(rn, rd, x.e \div 2)
             ELSE [kind |-> "sqrt", num |-> x.num, den |-> x.den, e |-> x.e]

\* const timeInSeconds = (endTime - startTime) / 1000
TimeInSeconds(elapsed) == NumDiv(elapsed, FromInt(1000))

\* const currentFLOPS = flops / timeInSeconds
CurrentFLOPS(flops, elapsed) == NumDiv(FromInt(flops), TimeInSeconds(elapsed))

\* const teraflopsPerSecond = currentFLOPS / 1e12
\* const teraflopsSeconds = timeInSeconds * teraflopsPerSecond
TeraflopsSeconds(flops, elapsed) ==
    NumMul(TimeInSeconds(elapsed), NumDiv(CurrentFLOPS(flops, elapsed), E10(12)))

TrialInit ==
    /\ trialN \in 1..MaxTrialN
    /\ numMeasurements \in 1..MaxTrials
    /\ times = <<>>
    /\ flopsResults = <<>>
    /\ teraflopsSecondsResults = <<>>
    /\ totalFLOPS = 0
    /\ trialOut = <<>>

\* One iteration of the loop of lines 106-124; ms is endTime - startTime.
Trial(ms) ==
    /\ Len(times) < numMeasurements
    /\ \E matrixA \in generateRandomMatrix(trialN), matrixB \in generateRandomMatrix(trialN) :
         LET flops   == multiplyMatricesWithFLOPS(matrixA, matrixB, trialN).flops
             elapsed == FromInt(ms)
         IN  /\ times' = Append(times, elapsed)
             /\ flopsResults' = Append(flopsResults, CurrentFLOPS(flops, elapsed))
             /\ teraflopsSecondsResults' =
                    Append(teraflopsSecondsResults, TeraflopsSeconds(flops, elapsed))
             /\ totalFLOPS' = flops
    /\ UNCHANGED <<trialN, numMeasurements, trialOut, sweepVars, mulVars, fitVars>>

\* const variance = times.reduce((sum, time) => sum + Math.pow(time - avgTime, 2), 0)
\*                  / times.length
VarianceOfSample(ts, avgTime) ==
    NumDiv(Reduce([k \in 1..Len(ts) |-> Square(NumSub(ts[k], avgTime))]),
           FromInt(Len(ts) - 1))
Variance(ts, avgTime) ==
    NumDiv(Reduce([k \in 1..Len(ts) |-> Square(NumSub(ts[k], avgTime))]),
           FromInt(Len(ts)))

\* Lines 126-136: the statistics over the trials and the returned object.
Aggregate ==
    /\ Len(times) = numMeasurements
    /\ trialOut = <<>>
    /\ LET len      == FromInt(Len(times))
           avgTime  == NumDiv(Reduce(times), len)
           variance == Variance(times, avgTime)
           stdDev   == MathSqrt(variance)
           avgFLOPS == NumDiv(Reduce(flopsResults), FromInt(Len(flopsResults)))
       IN  trialOut' = <<[avgTime |-> avgTime,
                          stdDev |-> stdDev,
                          flops |-> totalFLOPS,
                          avgFLOPS |-> avgFLOPS,
                          gflops |-> NumDiv(avgFLOPS, E10(9)),
                          teraflops |-> NumDiv(avgFLOPS, E10(12)),
                          teraflopsSeconds |->
                              NumDiv(Reduce(teraflopsSecondsResults),
                                     FromInt(Len(teraflopsSecondsResults)))]>>
    /\ UNCHANGED <<trialN, numMeasurements, times, flopsResults, teraflopsSecondsResults,
                   totalFLOPS, sweepVars, mulVars, fitVars>>

InitTrial == SweepInit /\ MulIdle /\ TrialInit /\ FitIdle
NextTrial == (\E ms \in 0..MaxElapsed : Trial(ms)) \/ Aggregate
SpecTrial == InitTrial /\ [][NextTrial]_vars

\* C9: the teraflopsSeconds of every trial, whatever the elapsed time
\* (0 included), is totalFlops / 1e12.
C9_TeraflopsSecondsIdentity ==
    \A k \in 1..Len(teraflopsSecondsResults) :
        teraflopsSecondsResults[k] = NumDiv(FromInt(totalFLOPS), E10(12))

\* What holds of teraflopsSeconds: the same, for the trials whose elapsed
\* time is not 0.
C9_TeraflopsSecondsIdentityPositive ==
    \A k \in 1..Len(teraflopsSecondsResults) :
        times[k] # Zero =>
            teraflopsSecondsResults[k] = NumDiv(FromInt(totalFLOPS), E10(12))

\* C12: a point measured with a trial count of 1 has standard deviation
\* exactly 0, whatever the size and the elapsed time of its one trial.
C12_SingleTrialZeroStdDev ==
    (trialOut # <<>> /\ numMeasurements = 1) => trialOut[1].stdDev = Zero

\* one trial of a positive elapsed time has been aggregated
C12_Witness ==
    /\ trialOut # <<>> /\ numMeasurements = 1
    /\ Len(times) = 1 /\ NumLess(Zero, times[1])
    /\ trialOut[1].avgTime = times[1]

----------------------------------------------------------------------------
(* fitCubicCurve                                                           *)

\* Sequences of FitLengths points are fitted; a point has a size in
\* FitSizes and a time that is 0..MaxFitTime or the cube of its size.  The
\* lengths and sizes stay small enough for the sums of sixth powers and
\* the squared residuals to fit TLC's 32-bit integers.
MaxFitTime == 1

FitLengths == 0..3
FitSizes   == 1..3
FitScales  == 1..3

FitPoints ==
    {[n |-> FromInt(p[1]), time |-> FromInt(p[2])] :
        p \in {q \in FitSizes \X (0..(27 + MaxFitTime)) :
                 q[2] <= MaxFitTime \/ q[2] = q[1] * q[1] * q[1]}}

\* The points of the curve time = k * n^3.
CubicPoints(k) ==
    {[n |-> FromInt(size), time |-> FromInt(k * size * size * size)] : size \in FitSizes}

SeqsOfLengths(S, lens) == UNION {[1..k -> S] : k \in lens}

\* Math.abs(x)
MathAbsIdentity(x) == x
MathAbs(x) == IF IsNaN(x) THEN NaN ELSE [x EXCEPT !.num = Abs(x.num)]

\* Math.max(x, y): NaN if either argument is NaN
MathMax(x, y) ==
    IF IsNaN(x) \/ IsNaN(y) THEN NaN
    ELSE IF NumLess(x, y) THEN y ELSE x

\* Math.pow(x, 3)
Cube(x) == NumMul(x, NumMul(x, x))

\* if (n < 3) return { a: 0, b: 0, c: 0, rSquared: 0 }
TooFewPointsBelowTwo(n) == n < 2
TooFewPoints(n) == n < 3

\* The sums of the first forEach (lines 149-155).
FitSums(dataPoints) ==
    [sumN3  |-> Reduce([k \in 1..Len(dataPoints) |-> Cube(dataPoints[k].n)]),
     sumN6  |-> Reduce([k \in 1..Len(dataPoints) |-> Square(Cube(dataPoints[k].n))]),
     sumTN3 |-> Reduce([k \in 1..Len(dataPoints) |->
                           NumMul(dataPoints[k].time, Cube(dataPoints[k].n))]),
     sumT   |-> Reduce([k \in 1..Len(dataPoints) |-> dataPoints[k].time])]

fitCubicCurve(dataPoints) ==
    LET n == Len(dataPoints) IN
    IF TooFewPoints(n) THEN [a |-> Zero, b |-> Zero, c |-> Zero, rSquared |-> Zero]
    ELSE
    LET len         == FromInt(n)
        sums        == FitSums(dataPoints)
        denominator == NumSub(NumMul(len, sums.sumN6), NumMul(sums.sumN3, sums.sumN3))
        a           == IF denominator # Zero
                       THEN NumDiv(NumSub(NumMul(len, sums.sumTN3),
                                          NumMul(sums.sumT, sums.sumN3)), denominator)
                       ELSE Zero
        avgTime     == NumDiv(sums.sumT, len)
        avgN3       == NumDiv(sums.sumN3, len)
        c           == NumSub(avgTime, NumMul(a, avgN3))
        b           == Zero
        avgY        == NumDiv(Reduce([k \in 1..n |-> dataPoints[k].time]), len)
        predicted(point) ==
            NumAdd(NumAdd(NumMul(a, Cube(point.n)), NumMul(b, Square(point.n))), c)
        ssRes       == Reduce([k \in 1..n |->
                           Square(NumSub(dataPoints[k].time, predicted(dataPoints[k])))])
        ssTot       == Reduce([k \in 1..n |-> Square(NumSub(dataPoints[k].time, avgY))])
        rSquared    == IF ~IsNaN(ssTot) /\ NumLess(Zero, ssTot)
                       THEN MathMax(Zero, NumSub(FromInt(1), NumDiv(ssRes, ssTot)))
                       ELSE Zero
    IN  [a |-> MathAbs(a), b |-> MathAbs(b), c |-> MathAbs(c), rSquared |-> rSquared]

FitInit ==
    /\ fitIn \in SeqsOfLengths(FitPoints, FitLengths)
                  \cup UNION {[1..3 -> CubicPoints(k)] : k \in FitScales}
    /\ fitOut = <<>>

\* One call of fitCubicCurve(fitIn).
Fit ==
    /\ fitOut = <<>>
    /\ fitOut' = <<fitCubicCurve(fitIn)>>
    /\ UNCHANGED <<fitIn, sweepVars, mulVars, trialVars>>

InitFit == SweepInit /\ MulIdle /\ TrialIdle /\ FitInit
SpecFit == InitFit /\ [][Fit]_vars

\* C10: for 0, 1 or 2 points fitCubicCurve returns a = b = c = rSquared = 0.
C10_FewPointsZeroFit ==
    (fitOut # <<>> /\ Len(fitIn) < 3) =>
        fitOut[1] = [a |-> Zero, b |-> Zero, c |-> Zero, rSquared |-> Zero]

\* two points of different sizes and times, which a line fits exactly
C10_Witness ==
    /\ fitOut # <<>> /\ Len(fitIn) = 2
    /\ fitIn[1].n # fitIn[2].n /\ fitIn[1].time # fitIn[2].time

\* The points have pairwise distinct sizes.
DistinctSizes(dataPoints) ==
    \A i, j \in 1..Len(dataPoints) : i # j => dataPoints[i].n # dataPoints[j].n

\* The times are k * n^3 for one k > 0: every time is positive and
\* time_i * n_j^3 = time_j * n_i^3 for every two points.
ProportionalToCube(dataPoints) ==
    \A i, j \in 1..Len(dataPoints) :
        /\ NumLess(Zero, dataPoints[i].time)
        /\ NumMul(dataPoints[i].time, Cube(dataPoints[j].n))
               = NumMul(dataPoints[j].time, Cube(dataPoints[i].n))

NonNegative(x) == x = Zero \/ (~IsNaN(x) /\ NumLess(Zero, x))

----------------------------------------------------------------------------
(* Properties of the component                                             *)

IsPrefix(s, t) == Len(s) <= Len(t) /\ SubSeq(t, 1, Len(s)) = s

\* C1: a run request made while a run is in progress starts nothing: at
\* most one invocation of runAnalysis is ever in its loop, and while one is,
\* no step restarts the sweep (the points measured so far only grow and the
\* captured inputs stay).
C1_AtMostOneSweep ==
    [][/\ Len(sweeps') <= 1
       /\ (sweeps' # <<>> => isRunning')
       /\ (sweeps # <<>> => IsPrefix(measured, measured') /\ lastRun' = lastRun)]_vars

\* a request was ignored while a sweep had measured two sizes
C1_Witness == rejected /\ Len(sweeps) = 1 /\ Len(measured) >= 2

\* C2: every started run ends, and whenever no run is in progress the
\* progress is 0, the current-test label is empty and no loop is left.
C2_RunEndsIdle ==
    /\ (isRunning ~> ~isRunning)
    /\ [](~isRunning => (progress = Zero /\ currentTest = NoTest /\ sweeps = <<>>))

\* a run that threw after reporting progress is back to idle
C2_Witness ==
    /\ ~isRunning /\ lastOutcome = "failed" /\ Len(measured) >= 2
    /\ progress = Zero /\ currentTest = NoTest

\* C3: after a run in which a trial threw, no result is published or shown.
C3_NoResultAfterFailure ==
    lastOutcome = "failed" => (results = null /\ rendered.results = null /\ ~isRunning)

\* a run failed after three sizes had been measured, and the idle state is rendered
C3_Witness == lastOutcome = "failed" /\ Len(measured) >= 3 /\ rendered = Hooks

\* C4: a published result of a run with startN <= endN holds
\* floor((endN - startN) / step) + 1 points whose sizes are startN,
\* startN + step, ..., strictly increasing, the last one the last <= endN.
C4_SweepSizes ==
    (results # null /\ lastRun.startN <= lastRun.endN) =>
        LET dp  == results.dataPoints
            len == ((lastRun.endN - lastRun.startN) \div lastRun.step) + 1
        IN  /\ Len(dp) = len
            /\ \A k \in 1..Len(dp) : dp[k].n = lastRun.startN + (k - 1) * lastRun.step
            /\ \A k \in 1..(Len(dp) - 1) : dp[k].n < dp[k + 1].n
            /\ dp[Len(dp)].n <= lastRun.endN
            /\ dp[Len(dp)].n + lastRun.step > lastRun.endN

\* a published sweep of at least three sizes whose step does not divide the range
C4_Witness ==
    /\ results # null
    /\ Len(results.dataPoints) >= 3
    /\ (lastRun.endN - lastRun.startN) % lastRun.step # 0

\* C6: after each measured size n of a sweep with startN <= endN the
\* reported progress is a number within [0, 100], and it is
\* 100 * (n - startN) / (endN - startN) when that quotient is defined.
C6_ProgressInRange ==
    \A i \in 1..Len(sweeps) :
        LET run == sweeps[i] IN
        /\ IsFinite(progress)
        /\ ~NumLess(progress, Zero)
        /\ ~NumLess(FromInt(100), progress)
        /\ run.startN < run.endN =>
              progress = Fin(100 * (run.n - run.startN), run.endN - run.startN, 0)

\* What holds of the progress: the same, for the sweeps with startN < endN.
C6_ProgressInRangeProper ==
    \A i \in 1..Len(sweeps) :
        LET run == sweeps[i] IN
        run.startN < run.endN =>
            /\ IsFinite(progress)
            /\ ~NumLess(progress, Zero)
            /\ ~NumLess(FromInt(100), progress)
            /\ progress = Fin(100 * (run.n - run.startN), run.endN - run.startN, 0)

\* C7: the published result, in the hooks and in the committed render, is
\* absent or is the result of a completed sweep with a point for every
\* size of that sweep; none is ever present while a sweep is in its loop.
C7_NoPartialSummary ==
    /\ results # null =>
          /\ results.kind = "result"
          /\ lastOutcome = "completed"
          /\ sweeps = <<>>
          /\ \A n \in lastRun.startN..lastRun.endN :
                (n - lastRun.startN) % lastRun.step = 0 =>
                    \E k \in 1..Len(results.dataPoints) : results.dataPoints[k].n = n
    /\ rendered.results # null => rendered.results = results

\* between two sizes of a sweep, with two points measured, nothing is published
C7_Witness ==
    /\ Len(sweeps) = 1 /\ Len(sweeps[1].dataPoints) >= 2
    /\ LoopTest([sweeps[1] EXCEPT !.n = @ + sweeps[1].step])
    /\ results = null /\ rendered.results = null

\* C8: a run in progress has no published result, and a published result
\* holds exactly the points measured since the run that produced it
\* started.
C8_NewRunDiscardsPrevious ==
    /\ isRunning => (results = null /\ rendered.results = null)
    /\ results # null => results.dataPoints = measured

\* a run that replaced an earlier summary has published its own
C8_Witness ==
    /\ lastRun.hadResults /\ results # null /\ Len(results.dataPoints) >= 2

\* C13: whatever was typed into the inputs, a run starts with
\* startN <= endN, and every published summary has at least one point.
C13_RunsOrderedAndSummaryNonEmpty ==
    /\ lastOutcome # "none" => lastRun.startN <= lastRun.endN
    /\ results # null => Len(results.dataPoints) >= 1

\* What holds of the summaries: one without points comes only from a run
\* that started with startN > endN.
C13_EmptySummaryOnlyWhenUnordered ==
    (results # null /\ Len(results.dataPoints) = 0) => lastRun.startN > lastRun.endN

====
